---- MODULE Spec2Model ----
(***************************************************************************)
(* unioauth: the OAuth 2.0 authorization-code flow of createOAuth, the     *)
(* OAuthProvider base class and its GitHub, Google and Discord variants.   *)
(*                                                                         *)
(* JavaScript values are encoded as follows.  A string-valued slot holds a *)
(* TLA+ string; NULL and UNDEFINED are two reserved strings standing for   *)
(* JavaScript's null and undefined.  An optional array is None (absent) or *)
(* Some(a).  A function that may throw yields Return(v) or Throw(e).       *)
(***************************************************************************)
EXTENDS Integers, Sequences, FiniteSets, TLC

VARIABLES
    oauth,      \* the client the host holds: provider key -> provider instance
    factory,    \* the last createOAuth(...) / new XProvider(...) call and its outcome
    calls,      \* per handleCallback invocation: its inputs, position and outcome
    sync        \* the last getRedirectUrl(...) / validateState(...) call and its outcome

vars == <<oauth, factory, calls, sync>>

\* ------------------------------------------------------------------ values

NULL == "<null>"
UNDEFINED == "<undefined>"

\* JavaScript truthiness of a string-valued slot: null, undefined and "" are falsy.
Truthy(v) == v \notin {NULL, UNDEFINED, ""}

\* a || b on string-valued slots
Or(a, b) == IF Truthy(a) THEN a ELSE b

None == <<>>
Some(a) == <<a>>

Return(v) == [ok |-> TRUE, value |-> v]
Throw(e) == [ok |-> FALSE, error |-> e]

\* ------------------------------------------------------------------ errors

\* new OAuthError(message, provider, code); msg is the message's identity.
OAuthError(msg, provider, code) ==
    [type |-> "OAuthError",
     msg |-> msg,
     provider |-> Or(provider, NULL),
     code |-> Or(code, "OAUTH_ERROR")]

\* An error that is not an OAuthError (Error, TypeError, SyntaxError): it has no
\* provider and no code property, so reading either gives undefined.
PlainError(type, msg) ==
    [type |-> type, msg |-> msg, provider |-> UNDEFINED, code |-> UNDEFINED]

NoError == [type |-> "none", msg |-> "", provider |-> UNDEFINED, code |-> UNDEFINED]

\* ------------------------------------------------------------------ provider variants

Variants == {"GitHubProvider", "GoogleProvider", "DiscordProvider"}

\* get name()
ProviderName(class) ==
    CASE class = "GitHubProvider" -> "github"
      [] class = "GoogleProvider" -> "google"
      [] class = "DiscordProvider" -> "discord"

\* get tokenUrl()
TokenUrl(class) ==
    CASE class = "GitHubProvider" -> "https://github.com/login/oauth/access_token"
      [] class = "GoogleProvider" -> "https://oauth2.googleapis.com/token"
      [] class = "DiscordProvider" -> "https://discord.com/api/oauth2/token"

\* get defaultScopes()
DefaultScopes(class) ==
    CASE class = "GitHubProvider" -> <<"read:user", "user:email">>
      [] class = "GoogleProvider" -> <<"openid", "email", "profile">>
      [] class = "DiscordProvider" -> <<"identify", "email">>

\* The URL fetchUser requests first.
ProfileUrl(class) ==
    CASE class = "GitHubProvider" -> "https://api.github.com/user"
      [] class = "GoogleProvider" -> "https://www.googleapis.com/oauth2/v2/userinfo"
      [] class = "DiscordProvider" -> "https://discord.com/api/v10/users/@me"

EmailsUrl == "https://api.github.com/user/emails"

\* ------------------------------------------------------------------ construction

\* The provider configurations a caller may pass to a constructor.
ProviderConfigs ==
    [clientId : {UNDEFINED, "", "id"},
     clientSecret : {UNDEFINED, "", "secret"},
     redirectUri : {UNDEFINED, "", "uri"},
     scopes : {None, Some(<<>>), Some(<<"read:user">>)}]

ValidConfig ==
    [clientId |-> "id", clientSecret |-> "secret", redirectUri |-> "uri", scopes |-> None]

\* A constructor that attributes its errors to no provider.
MutNewProviderNullName(class, config) ==
    IF ~Truthy(config.clientId)
    THEN Throw(OAuthError("clientId is required", NULL, "CONFIG_ERROR"))
    ELSE IF ~Truthy(config.clientSecret)
    THEN Throw(OAuthError("clientSecret is required", NULL, "CONFIG_ERROR"))
    ELSE IF ~Truthy(config.redirectUri)
    THEN Throw(OAuthError("redirectUri is required", NULL, "CONFIG_ERROR"))
    ELSE Return([class |-> class,
                 clientId |-> config.clientId,
                 clientSecret |-> config.clientSecret,
                 redirectUri |-> config.redirectUri,
                 scopes |-> IF config.scopes = None THEN DefaultScopes(class)
                            ELSE config.scopes[1]])

\* constructor(config), run for `new class(config)`: this.name resolves to the
\* subclass getter.
NewProvider(class, config) ==
    IF ~Truthy(config.clientId)
    THEN Throw(OAuthError("clientId is required", ProviderName(class), "CONFIG_ERROR"))
    ELSE IF ~Truthy(config.clientSecret)
    THEN Throw(OAuthError("clientSecret is required", ProviderName(class), "CONFIG_ERROR"))
    ELSE IF ~Truthy(config.redirectUri)
    THEN Throw(OAuthError("redirectUri is required", ProviderName(class), "CONFIG_ERROR"))
    ELSE Return([class |-> class,
                 clientId |-> config.clientId,
                 clientSecret |-> config.clientSecret,
                 redirectUri |-> config.redirectUri,
                 scopes |-> IF config.scopes = None THEN DefaultScopes(class)
                            ELSE config.scopes[1]])

IsInstanceOf(x, class) == "class" \in DOMAIN x /\ x.class = class

\* const PROVIDERS = { github: ..., google: ..., discord: ... }
PROVIDERS ==
    [github |-> "GitHubProvider", google |-> "GoogleProvider", discord |-> "DiscordProvider"]

\* PROVIDERS[name]: a property read on a plain object.  Own keys give the class;
\* a key inherited from Object.prototype gives what the prototype holds
\* ("constructor" is the Object constructor, "toString" a built-in method that
\* is not a constructor); any other key gives undefined.
ProvidersLookup(name) ==
    IF name \in DOMAIN PROVIDERS THEN PROVIDERS[name]
    ELSE IF name = "constructor" THEN "Object"
    ELSE IF name = "toString" THEN "builtin method"
    ELSE UNDEFINED

\* new Provider(providerConfig) for whatever the lookup gave.
NewLookedUp(Provider, config) ==
    IF Provider \in Variants THEN NewProvider(Provider, config)
    ELSE IF Provider = "Object" THEN Return(config)      \* new Object(obj) is obj
    ELSE Throw(PlainError("TypeError", "Provider is not a constructor"))

\* The for-loop of createOAuth over Object.entries(config), then the
\* emptiness check and the return.
RECURSIVE CreateLoop(_, _)
CreateLoop(entries, acc) ==
    IF entries = <<>>
    THEN IF DOMAIN acc = {}
         THEN Throw(PlainError("Error", "At least one provider must be configured"))
         ELSE Return(acc)
    ELSE LET name == Head(entries).name
             Provider == ProvidersLookup(name)
         IN  IF ~Truthy(Provider)
             THEN Throw(PlainError("Error", "Unknown provider"))
             ELSE LET made == NewLookedUp(Provider, Head(entries).config)
                  IN  IF ~made.ok THEN made
                      ELSE CreateLoop(Tail(entries), (name :> made.value) @@ acc)

\* createOAuth(config); config.kind is "undefined" for a missing argument.
CreateOAuth(config) ==
    IF config.kind # "object"
    THEN Throw(PlainError("Error", "createOAuth() requires a configuration object"))
    ELSE CreateLoop(config.entries, <<>>)

\* ------------------------------------------------------------------ utils/http.js

\* What fetch(url) may do: reject ("throw"), or resolve with a response that has
\* a status class (ok), a content type (application/json or another) and a
\* body.  A body is JSON text (fmt "json", data its parsed value) or other text
\* (data is what Object.fromEntries(new URLSearchParams(text)) makes of it).
\* okJson are the JSON bodies of 2xx responses, errJson those of other statuses.
FetchOutcomes(okJson, errJson, text) ==
    {[kind |-> "throw", ok |-> FALSE, ctype |-> "other",
      body |-> [fmt |-> "text", data |-> CHOOSE d \in text : TRUE]]}
    \cup
    [kind : {"response"}, ok : {TRUE}, ctype : {"json", "other"},
     body : [fmt : {"json"}, data : okJson] \cup [fmt : {"text"}, data : text]]
    \cup
    [kind : {"response"}, ok : {FALSE}, ctype : {"json", "other"},
     body : [fmt : {"json"}, data : errJson] \cup [fmt : {"text"}, data : text]]

NoOutcome ==
    [kind |-> "none", ok |-> FALSE, ctype |-> "other", body |-> [fmt |-> "none"]]

\* Lines 33-47: response.json() for a JSON content type (it rejects with a
\* SyntaxError on text that is not JSON); otherwise JSON.parse of the text, and
\* on failure the form decoding.
ParseBody(ctype, body) ==
    IF ctype = "json"
    THEN IF body.fmt = "json" THEN Return(body.data)
         ELSE Throw(PlainError("SyntaxError", "Unexpected token in JSON"))
    ELSE Return(body.data)

\* request(url, options) once fetch has settled with `outcome`.
Request(outcome) ==
    IF outcome.kind = "throw"
    THEN Throw(OAuthError("Network request failed", NULL, "NETWORK_ERROR"))
    ELSE LET parsed == ParseBody(outcome.ctype, outcome.body)
         IN  IF ~parsed.ok THEN parsed
             ELSE IF ~outcome.ok
             THEN Throw(OAuthError("HTTP error", NULL, "HTTP_ERROR"))
             ELSE parsed

\* ------------------------------------------------------------------ utils/state.js

\* The state values of the model: what generateState issues is a hex string;
\* "a" and "b" differ at equal length, "a" and "ab" differ in length.
StateStrings == {"a", "b", "ab"}

\* The UTF-8 encoding of one character of a state value (a hex digit).
Utf8Byte(ch) ==
    CASE ch = "a" -> 97
      [] ch = "b" -> 98
      [] ch = "c" -> 99
      [] ch = "d" -> 100
      [] ch = "e" -> 101
      [] ch = "f" -> 102
      [] ch = "0" -> 48
      [] ch = "1" -> 49
      [] ch = "2" -> 50
      [] ch = "3" -> 51
      [] ch = "4" -> 52
      [] ch = "5" -> 53
      [] ch = "6" -> 54
      [] ch = "7" -> 55
      [] ch = "8" -> 56
      [] ch = "9" -> 57

\* One byte as Buffer.prototype.toString('hex') writes it: two lower-case hex
\* digits.
HexDigit(n) ==
    CASE n = 0 -> "0" [] n = 1 -> "1" [] n = 2 -> "2" [] n = 3 -> "3"
      [] n = 4 -> "4" [] n = 5 -> "5" [] n = 6 -> "6" [] n = 7 -> "7"
      [] n = 8 -> "8" [] n = 9 -> "9" [] n = 10 -> "a" [] n = 11 -> "b"
      [] n = 12 -> "c" [] n = 13 -> "d" [] n = 14 -> "e" [] n = 15 -> "f"

RECURSIVE ToHex(_)
ToHex(bytes) ==
    IF bytes = <<>> THEN ""
    ELSE HexDigit(bytes[1] \div 16) \o HexDigit(bytes[1] % 16) \o ToHex(Tail(bytes))

\* generateState(length), randomBytes being what crypto.randomBytes(length)
\* returned.
GenerateState(randomBytes) == ToHex(randomBytes)

\* Buffer.from(String(s)): the UTF-8 bytes of the string s.
BufferFrom(s) == [i \in 1..Len(s) |-> Utf8Byte(SubSeq(s, i, i))]

\* crypto.timingSafeEqual on two buffers of one length.
TimingSafeEqual(x, y) == \A i \in 1..Len(x) : x[i] = y[i]

\* A validateState that compares only the common prefix.
MutValidateStatePrefix(expected, received) ==
    IF ~Truthy(expected) \/ ~Truthy(received)
    THEN Throw(OAuthError("State parameter missing", NULL, "STATE_MISSING"))
    ELSE LET expectedBuf == BufferFrom(expected)
             receivedBuf == BufferFrom(received)
         IN  IF \E i \in 1..Len(expectedBuf) :
                    i <= Len(receivedBuf) /\ expectedBuf[i] # receivedBuf[i]
             THEN Throw(OAuthError("State mismatch", NULL, "STATE_MISMATCH"))
             ELSE Return(UNDEFINED)

\* A validateState that tests only the received value for presence.
MutValidateStateTrustsExpected(expected, received) ==
    IF ~Truthy(received)
    THEN Throw(OAuthError("State parameter missing", NULL, "STATE_MISSING"))
    ELSE IF ~Truthy(expected)
    THEN Throw(OAuthError("State mismatch", NULL, "STATE_MISMATCH"))
    ELSE LET expectedBuf == BufferFrom(expected)
             receivedBuf == BufferFrom(received)
         IN  IF Len(expectedBuf) # Len(receivedBuf)
                \/ ~TimingSafeEqual(expectedBuf, receivedBuf)
             THEN Throw(OAuthError("State mismatch", NULL, "STATE_MISMATCH"))
             ELSE Return(UNDEFINED)

\* validateState(expected, received)
ValidateState(expected, received) ==
    IF ~Truthy(expected) \/ ~Truthy(received)
    THEN Throw(OAuthError("State parameter missing", NULL, "STATE_MISSING"))
    ELSE LET expectedBuf == BufferFrom(expected)
             receivedBuf == BufferFrom(received)
         IN  IF Len(expectedBuf) # Len(receivedBuf)
                \/ ~TimingSafeEqual(expectedBuf, receivedBuf)
             THEN Throw(OAuthError("State mismatch", NULL, "STATE_MISMATCH"))
             ELSE Return(UNDEFINED)

\* ------------------------------------------------------------------ callback requests

\* What a callback query carries under the four keys: UNDEFINED for a key that
\* is not there, else its (first) value.  A description comes with an error,
\* and an empty error= is tried on queries without a state.
RawParams ==
    {p \in [code : {UNDEFINED, "", "c"},
            state : {UNDEFINED, ""} \cup StateStrings,
            error : {UNDEFINED, "", "access_denied"},
            error_description : {UNDEFINED, "denied by user"}] :
        /\ p.error_description # UNDEFINED => p.error = "access_denied"
        /\ p.error = "" => p.state = UNDEFINED}

NoRaw ==
    [code |-> UNDEFINED, state |-> UNDEFINED, error |-> UNDEFINED,
     error_description |-> UNDEFINED]

\* A second query, used where a request matches several shapes.
OtherRaw ==
    [code |-> "c2", state |-> "b", error |-> UNDEFINED, error_description |-> UNDEFINED]

\* req.query: not there, a truthy non-object, or a parsed-query mapping.
\* req.nextUrl: not there, or a URL with searchParams.
\* req.url: not there, a string that new URL(req.url, `http://${host}`) parses,
\* or one it rejects (the host header only contributes to the base URL).
Shape(kind, p) == [kind |-> kind, p |-> p]

NoShapeRequest ==
    [query |-> Shape("absent", NoRaw), nextUrl |-> Shape("absent", NoRaw),
     url |-> Shape("absent", NoRaw)]

Requests ==
    {[NoShapeRequest EXCEPT !.query = Shape("object", p)] : p \in RawParams}
    \cup {[NoShapeRequest EXCEPT !.nextUrl = Shape("url", p)] : p \in RawParams}
    \cup {[NoShapeRequest EXCEPT !.url = Shape("valid", p)] : p \in RawParams}
    \cup {[query |-> Shape(q, NoRaw), nextUrl |-> Shape("absent", NoRaw),
           url |-> Shape(u, NoRaw)] :
             q \in {"absent", "string"}, u \in {"absent", "invalid"}}
    \cup {[query |-> Shape(q, IF q = "object" THEN p ELSE NoRaw),
           nextUrl |-> Shape(n, IF q = "object" THEN OtherRaw ELSE p),
           url |-> Shape("valid", OtherRaw)] :
             q \in {"object", "string"}, n \in {"absent", "url"},
             p \in {r \in RawParams : r.code = "c" /\ r.state = "a" /\ r.error = UNDEFINED}}

\* sp.get(key): null for a key that is not there.
SearchParamsGet(p, key) == IF p[key] = UNDEFINED THEN NULL ELSE p[key]

\* An adapter that parses req.url before it looks for req.nextUrl.
MutExtractParamsUrlFirst(name, req) ==
    IF req.query.kind = "object"
    THEN Return([code |-> Or(req.query.p.code, NULL),
                 state |-> Or(req.query.p.state, NULL),
                 error |-> Or(req.query.p.error, NULL),
                 errorDescription |-> Or(req.query.p.error_description, NULL)])
    ELSE IF req.url.kind = "valid"
    THEN Return([code |-> SearchParamsGet(req.url.p, "code"),
                 state |-> SearchParamsGet(req.url.p, "state"),
                 error |-> SearchParamsGet(req.url.p, "error"),
                 errorDescription |-> SearchParamsGet(req.url.p, "error_description")])
    ELSE IF req.url.kind = "invalid"
    THEN Throw(PlainError("TypeError", "Invalid URL"))
    ELSE IF req.nextUrl.kind # "absent"
    THEN Return([code |-> SearchParamsGet(req.nextUrl.p, "code"),
                 state |-> SearchParamsGet(req.nextUrl.p, "state"),
                 error |-> SearchParamsGet(req.nextUrl.p, "error"),
                 errorDescription |-> SearchParamsGet(req.nextUrl.p, "error_description")])
    ELSE Throw(OAuthError("Unable to extract query parameters", name, "INVALID_REQUEST"))

\* _extractParams(req) of the instance named `name`
ExtractParams(name, req) ==
    IF req.query.kind = "object"
    THEN Return([code |-> Or(req.query.p.code, NULL),
                 state |-> Or(req.query.p.state, NULL),
                 error |-> Or(req.query.p.error, NULL),
                 errorDescription |-> Or(req.query.p.error_description, NULL)])
    ELSE IF req.nextUrl.kind # "absent"
    THEN Return([code |-> SearchParamsGet(req.nextUrl.p, "code"),
                 state |-> SearchParamsGet(req.nextUrl.p, "state"),
                 error |-> SearchParamsGet(req.nextUrl.p, "error"),
                 errorDescription |-> SearchParamsGet(req.nextUrl.p, "error_description")])
    ELSE IF req.url.kind = "valid"
    THEN Return([code |-> SearchParamsGet(req.url.p, "code"),
                 state |-> SearchParamsGet(req.url.p, "state"),
                 error |-> SearchParamsGet(req.url.p, "error"),
                 errorDescription |-> SearchParamsGet(req.url.p, "error_description")])
    ELSE IF req.url.kind = "invalid"
    THEN Throw(PlainError("TypeError", "Invalid URL"))
    ELSE Throw(OAuthError("Unable to extract query parameters", name, "INVALID_REQUEST"))

NoParams ==
    [code |-> NULL, state |-> NULL, error |-> NULL, errorDescription |-> NULL]

\* ------------------------------------------------------------------ provider responses

\* Parsed bodies of the token endpoint.
TokenData ==
    [error : {UNDEFINED, "bad_verification_code"},
     access_token : {UNDEFINED, "", "gho_1", "gho_2"}]

NoTokenData == [error |-> UNDEFINED, access_token |-> UNDEFINED]

\* Token bodies that arrive form-encoded (GitHub's default) or as text that
\* carries neither field.
FormTokenData ==
    {NoTokenData,
     [error |-> UNDEFINED, access_token |-> "gho_1"],
     [error |-> "bad_verification_code", access_token |-> UNDEFINED]}

\* A profile id is a JSON number (GitHub) or a JSON string (Google, Discord),
\* or is not there.
NumberId(n) == [t |-> "number", v |-> n]
StringId(s) == [t |-> "string", v |-> s]
NoId == [t |-> "undefined", v |-> UNDEFINED]

\* String(profile.id)
StringOf(id) ==
    CASE id.t = "number" -> ToString(id.v)
      [] id.t = "string" -> id.v
      [] id.t = "undefined" -> "undefined"

\* Bodies of GET https://api.github.com/user
GitHubProfiles ==
    [id : {NumberId(583231)},
     email : {NULL, "octo@example.com"},
     name : {NULL, "The Octocat"},
     login : {"octocat"},
     avatar_url : {"https://avatars.example/u/583231"}]

\* Bodies of GET https://www.googleapis.com/oauth2/v2/userinfo
GoogleProfiles ==
    [id : {StringId("1080")},
     email : {UNDEFINED, "g@example.com"},
     name : {UNDEFINED, "G User"},
     picture : {UNDEFINED, "https://lh3.example/photo"}]

\* Bodies of GET https://discord.com/api/v10/users/@me
DiscordProfiles ==
    [id : {StringId("80351")},
     email : {NULL, "d@example.com"},
     global_name : {NULL, "Disco"},
     username : {"disco"},
     avatar : {NULL, "a_abc123", "abc123"}]

\* A 2xx body that is an object with none of the profile's fields (for one,
\* what the form decoding makes of text that is not JSON).
EmptyProfile(class) ==
    CASE class = "GitHubProvider" ->
           [id |-> NoId, email |-> UNDEFINED, name |-> UNDEFINED, login |-> UNDEFINED,
            avatar_url |-> UNDEFINED]
      [] class = "GoogleProvider" ->
           [id |-> NoId, email |-> UNDEFINED, name |-> UNDEFINED, picture |-> UNDEFINED]
      [] class = "DiscordProvider" ->
           [id |-> NoId, email |-> UNDEFINED, global_name |-> UNDEFINED,
            username |-> UNDEFINED, avatar |-> UNDEFINED]

Profiles(class) ==
    CASE class = "GitHubProvider" -> GitHubProfiles
      [] class = "GoogleProvider" -> GoogleProfiles
      [] class = "DiscordProvider" -> DiscordProfiles

NoProfile == [id |-> NoId]

\* Bodies of GET https://api.github.com/user/emails: an array of entries, or
\* an object that is no array.
MaxEmails == 2

EmailEntries ==
    [email : {"p@example.com", "q@example.com"}, primary : BOOLEAN, verified : BOOLEAN]

EmailLists ==
    UNION {[1..n -> EmailEntries] : n \in 0..MaxEmails}

EmailsArray(items) == [isArray |-> TRUE, items |-> items]
NotAnArray == [isArray |-> FALSE, items |-> <<>>]

TokenOutcomes == FetchOutcomes(TokenData, TokenData, FormTokenData)

\* The profile and emails endpoints label their JSON bodies as JSON.
ProfileOutcomes(class) ==
    {o \in FetchOutcomes(Profiles(class), {EmptyProfile(class)}, {EmptyProfile(class)}) :
        o.body.fmt = "json" => o.ctype = "json"}

EmailsOutcomes ==
    {o \in FetchOutcomes({EmailsArray(l) : l \in EmailLists}, {NotAnArray}, {NotAnArray}) :
        o.body.fmt = "json" => o.ctype = "json"}

\* ------------------------------------------------------------------ providers/*.js

\* emails.find(...)?.email, hits being the indexes the predicate accepts
FirstEmail(items, hits) ==
    IF hits = {} THEN UNDEFINED
    ELSE items[CHOOSE i \in hits : \A j \in hits : i <= j].email

\* A resolution that takes the primary entry whether verified or not.
MutResolveEmailAnyPrimary(got) ==
    IF ~got.ok THEN NULL
    ELSE IF ~got.value.isArray THEN NULL
    ELSE LET items == got.value.items
             primary == {i \in 1..Len(items) : items[i].primary}
             verified == {i \in 1..Len(items) : items[i].verified}
         IN  Or(FirstEmail(items, primary), Or(FirstEmail(items, verified), NULL))

\* github.js lines 39-51: the try block around the emails request, given what
\* request() did.
ResolveEmail(got) ==
    IF ~got.ok THEN NULL                       \* catch { email = null }
    ELSE IF ~got.value.isArray THEN NULL       \* emails.find is not a function: caught
    ELSE LET items == got.value.items
             primaryVerified == {i \in 1..Len(items) : items[i].primary /\ items[i].verified}
             verified == {i \in 1..Len(items) : items[i].verified}
         IN  Or(FirstEmail(items, primaryVerified), Or(FirstEmail(items, verified), NULL))

\* GitHubProvider.fetchUser: the object it returns
GitHubUser(profile, email) ==
    [provider |-> "github",
     id |-> StringOf(profile.id),
     email |-> email,
     name |-> Or(profile.name, profile.login),
     avatar |-> Or(profile.avatar_url, NULL),
     raw |-> profile]

\* GoogleProvider.fetchUser: the object it returns
GoogleUser(profile) ==
    [provider |-> "google",
     id |-> StringOf(profile.id),
     email |-> Or(profile.email, NULL),
     name |-> Or(profile.name, NULL),
     avatar |-> Or(profile.picture, NULL),
     raw |-> profile]

\* s.startsWith(prefix)
StartsWith(s, prefix) ==
    Len(s) >= Len(prefix) /\ SubSeq(s, 1, Len(prefix)) = prefix

\* A fetchUser that gives every avatar the .png extension.
MutDiscordUserAlwaysPng(profile) ==
    [provider |-> "discord",
     id |-> StringOf(profile.id),
     email |-> Or(profile.email, NULL),
     name |-> Or(profile.global_name, profile.username),
     avatar |-> IF Truthy(profile.avatar)
                THEN "https://cdn.discordapp.com/avatars/" \o StringOf(profile.id)
                     \o "/" \o profile.avatar \o ".png"
                ELSE NULL,
     raw |-> profile]

\* DiscordProvider.fetchUser: the object it returns
DiscordUser(profile) ==
    [provider |-> "discord",
     id |-> StringOf(profile.id),
     email |-> Or(profile.email, NULL),
     name |-> Or(profile.global_name, profile.username),
     avatar |-> IF Truthy(profile.avatar)
                THEN "https://cdn.discordapp.com/avatars/" \o StringOf(profile.id)
                     \o "/" \o profile.avatar \o "."
                     \o (IF StartsWith(profile.avatar, "a_") THEN "gif" ELSE "png")
                ELSE NULL,
     raw |-> profile]

NoUser == [provider |-> UNDEFINED]

\* ------------------------------------------------------------------ providers/base.js

\* get authorizationUrl()
AuthorizationUrl(class) ==
    CASE class = "GitHubProvider" -> "https://github.com/login/oauth/authorize"
      [] class = "GoogleProvider" -> "https://accounts.google.com/o/oauth2/v2/auth"
      [] class = "DiscordProvider" -> "https://discord.com/api/oauth2/authorize"

\* array.join(sep) on an array of strings
RECURSIVE Join(_, _)
Join(array, sep) ==
    IF array = <<>> THEN ""
    ELSE IF Len(array) = 1 THEN array[1]
    ELSE array[1] \o sep \o Join(Tail(array), sep)

\* The application/x-www-form-urlencoded byte serializer on one character of
\* the model's values: a space becomes "+", ":" and "/" are percent-encoded,
\* letters, digits and "*-._" stay.
FormEncodeChar(ch) ==
    CASE ch = " " -> "+"
      [] ch = ":" -> "%3A"
      [] ch = "/" -> "%2F"
      [] OTHER -> ch

RECURSIVE FormEncode(_)
FormEncode(str) ==
    IF str = "" THEN ""
    ELSE FormEncodeChar(SubSeq(str, 1, 1)) \o FormEncode(SubSeq(str, 2, Len(str)))

\* URLSearchParams.prototype.toString() on a list of <<name, value>> pairs
RECURSIVE SearchParamsToString(_)
SearchParamsToString(pairs) ==
    IF pairs = <<>> THEN ""
    ELSE FormEncode(pairs[1][1]) \o "=" \o FormEncode(pairs[1][2])
         \o (IF Len(pairs) = 1 THEN "" ELSE "&" \o SearchParamsToString(Tail(pairs)))

\* The options of getRedirectUrl: scopes is None or Some(array), state a
\* string-valued slot.
NoOptions == [scopes |-> None, state |-> UNDEFINED]

\* A getRedirectUrl whose override is written to the instance.
MutGetRedirectUrlStoresScopes(inst, options) ==
    LET scopes == IF options.scopes # None THEN options.scopes[1] ELSE inst.scopes
        params == <<<<"client_id", inst.clientId>>,
                    <<"redirect_uri", inst.redirectUri>>,
                    <<"response_type", "code">>,
                    <<"scope", Join(scopes, " ")>>>>
        withState == IF Truthy(options.state)
                     THEN Append(params, <<"state", options.state>>)
                     ELSE params
    IN  [url |-> AuthorizationUrl(inst.class) \o "?" \o SearchParamsToString(withState),
         this |-> [inst EXCEPT !.scopes = scopes]]

\* A getRedirectUrl that leaves the state out of the URL.
MutGetRedirectUrlNoState(inst, options) ==
    LET scopes == IF options.scopes # None THEN options.scopes[1] ELSE inst.scopes
        params == <<<<"client_id", inst.clientId>>,
                    <<"redirect_uri", inst.redirectUri>>,
                    <<"response_type", "code">>,
                    <<"scope", Join(scopes, " ")>>>>
    IN  [url |-> AuthorizationUrl(inst.class) \o "?" \o SearchParamsToString(params),
         this |-> inst]

\* getRedirectUrl(options) on instance inst: the URL it returns and the
\* instance as the call leaves it.  An array, even an empty one, is truthy, so
\* options.scopes || this.scopes takes any array that is passed.
GetRedirectUrl(inst, options) ==
    LET scopes == IF options.scopes # None THEN options.scopes[1] ELSE inst.scopes
        params == <<<<"client_id", inst.clientId>>,
                    <<"redirect_uri", inst.redirectUri>>,
                    <<"response_type", "code">>,
                    <<"scope", Join(scopes, " ")>>>>
        withState == IF Truthy(options.state)
                     THEN Append(params, <<"state", options.state>>)
                     ELSE params              \* addAuthParams is a no-op
    IN  [url |-> AuthorizationUrl(inst.class) \o "?" \o SearchParamsToString(withState),
         this |-> inst]

\* Checks that look for the code before they look for an error.
MutChecksCodeFirst(name, params, opts) ==
    IF ~Truthy(params.code)
    THEN Throw(OAuthError("No authorization code received in callback",
                          name, "MISSING_CODE"))
    ELSE IF Truthy(params.error)
    THEN Throw(OAuthError(Or(params.errorDescription, "Authorization denied"),
                          name, params.error))
    ELSE IF Truthy(opts.state)
    THEN ValidateState(opts.state, params.state)
    ELSE Return(UNDEFINED)

\* Checks that validate the state before they look for the code.
MutChecksStateFirst(name, params, opts) ==
    IF Truthy(params.error)
    THEN Throw(OAuthError(Or(params.errorDescription, "Authorization denied"),
                          name, params.error))
    ELSE IF Truthy(opts.state) /\ ~ValidateState(opts.state, params.state).ok
    THEN ValidateState(opts.state, params.state)
    ELSE IF ~Truthy(params.code)
    THEN Throw(OAuthError("No authorization code received in callback",
                          name, "MISSING_CODE"))
    ELSE Return(UNDEFINED)

\* Checks that validate the state whether or not the caller expects one.
MutChecksAlwaysValidate(name, params, opts) ==
    IF Truthy(params.error)
    THEN Throw(OAuthError(Or(params.errorDescription, "Authorization denied"),
                          name, params.error))
    ELSE IF ~Truthy(params.code)
    THEN Throw(OAuthError("No authorization code received in callback",
                          name, "MISSING_CODE"))
    ELSE ValidateState(opts.state, params.state)

\* handleCallback lines 209-229: the checks on the extracted params.
CallbackChecks(name, params, opts) ==
    IF Truthy(params.error)
    THEN Throw(OAuthError(Or(params.errorDescription, "Authorization denied"),
                          name, params.error))
    ELSE IF ~Truthy(params.code)
    THEN Throw(OAuthError("No authorization code received in callback",
                          name, "MISSING_CODE"))
    ELSE IF Truthy(opts.state)
    THEN ValidateState(opts.state, params.state)
    ELSE Return(UNDEFINED)

\* An _exchangeCode without the access_token check.
MutExchangeNoTokenCheck(name, got) ==
    IF ~got.ok THEN got
    ELSE IF Truthy(got.value.error)
    THEN Throw(OAuthError("Token exchange failed", name, "TOKEN_ERROR"))
    ELSE got

\* An _exchangeCode that trusts the status and skips the body's error field.
MutExchangeNoErrorCheck(name, got) ==
    IF ~got.ok THEN got
    ELSE IF ~Truthy(got.value.access_token)
    THEN Throw(OAuthError("No access token received from provider", name, "TOKEN_ERROR"))
    ELSE got

\* _exchangeCode lines 332-349, given what request(this.tokenUrl, ...) did.
ExchangeCode(name, got) ==
    IF ~got.ok THEN got
    ELSE IF Truthy(got.value.error)
    THEN Throw(OAuthError("Token exchange failed", name, "TOKEN_ERROR"))
    ELSE IF ~Truthy(got.value.access_token)
    THEN Throw(OAuthError("No access token received from provider", name, "TOKEN_ERROR"))
    ELSE got

\* An attachment that reads a field the token response does not have.
MutAttachTokenTypo(user, tokenData) ==
    [k \in DOMAIN user \cup {"accessToken"} |->
        IF k = "accessToken" THEN UNDEFINED ELSE user[k]]

\* user.accessToken = tokenData.access_token
AttachToken(user, tokenData) ==
    [k \in DOMAIN user \cup {"accessToken"} |->
        IF k = "accessToken" THEN tokenData.access_token ELSE user[k]]

\* One handleCallback invocation.  pc is where it stands: "idle" (not called),
\* "token" / "profile" / "emails" (suspended on that request), "returned" or
\* "threw".  net lists the URLs requested so far, hooks the provider hooks
\* invoked, tokenResp / profileResp / emailsResp what fetch did for each request.
IdleCall ==
    [pc |-> "idle", key |-> "", req |-> NoShapeRequest, opts |-> [state |-> UNDEFINED],
     params |-> NoParams, net |-> <<>>, hooks |-> <<>>,
     tokenResp |-> NoOutcome, tokenData |-> NoTokenData,
     profileResp |-> NoOutcome, emailsResp |-> NoOutcome,
     result |-> NoUser, error |-> NoError]

Threw(call, e) == [call EXCEPT !.pc = "threw", !.error = e]

\* A handleCallback that starts the token exchange and validates the state
\* only while the token request is on its way.
MutBeginExchangeFirst(key, inst, req, opts) ==
    LET name == ProviderName(inst.class)
        call == [IdleCall EXCEPT !.key = key, !.req = req, !.opts = opts]
        extracted == ExtractParams(name, req)
    IN  IF ~extracted.ok THEN Threw(call, extracted.error)
        ELSE LET checked == CallbackChecks(name, extracted.value, opts)
                 withParams == [call EXCEPT !.params = extracted.value]
                 asked == [withParams EXCEPT !.net = <<TokenUrl(inst.class)>>]
             IN  IF checked.ok THEN [asked EXCEPT !.pc = "token"]
                 ELSE IF checked.error.code \in {"STATE_MISSING", "STATE_MISMATCH"}
                 THEN Threw(asked, checked.error)
                 ELSE Threw(withParams, checked.error)

\* handleCallback(req, options) on instance inst up to its first await: lines
\* 207-229, then _exchangeCode issues the token request.
Begin(key, inst, req, opts) ==
    LET name == ProviderName(inst.class)
        call == [IdleCall EXCEPT !.key = key, !.req = req, !.opts = opts]
        extracted == ExtractParams(name, req)
    IN  IF ~extracted.ok THEN Threw(call, extracted.error)
        ELSE LET checked == CallbackChecks(name, extracted.value, opts)
                 withParams == [call EXCEPT !.params = extracted.value]
             IN  IF ~checked.ok THEN Threw(withParams, checked.error)
                 ELSE [withParams EXCEPT !.pc = "token",
                                         !.net = <<TokenUrl(inst.class)>>]

\* An _exchangeCode that asks the token endpoint once more when its fetch
\* failed.
MutAfterTokenRetries(call, inst, outcome) ==
    LET name == ProviderName(inst.class)
        exchanged == ExchangeCode(name, Request(outcome))
        seen == [call EXCEPT !.tokenResp = outcome]
    IN  IF outcome.kind = "throw" /\ Len(call.net) = 1
        THEN [call EXCEPT !.net = Append(@, TokenUrl(inst.class))]
        ELSE IF ~exchanged.ok THEN Threw(seen, exchanged.error)
        ELSE [seen EXCEPT !.pc = "profile",
                          !.tokenData = exchanged.value,
                          !.hooks = Append(@, "fetchUser"),
                          !.net = Append(@, ProfileUrl(inst.class))]

\* A fetchUser for GitHub that starts the profile and the emails request
\* together.
MutAfterTokenParallelFetch(call, inst, outcome) ==
    LET name == ProviderName(inst.class)
        exchanged == ExchangeCode(name, Request(outcome))
        seen == [call EXCEPT !.tokenResp = outcome]
    IN  IF ~exchanged.ok THEN Threw(seen, exchanged.error)
        ELSE [seen EXCEPT !.pc = "profile",
                          !.tokenData = exchanged.value,
                          !.hooks = Append(@, "fetchUser"),
                          !.net = IF inst.class = "GitHubProvider"
                                  THEN @ \o <<ProfileUrl(inst.class), EmailsUrl>>
                                  ELSE Append(@, ProfileUrl(inst.class))]

\* An _exchangeCode that, when the token request fails, asks again and waits
\* for the next answer instead of throwing.
MutAfterTokenAsksAgain(call, inst, outcome) ==
    LET name == ProviderName(inst.class)
        exchanged == ExchangeCode(name, Request(outcome))
        seen == [call EXCEPT !.tokenResp = outcome]
    IN  IF ~exchanged.ok THEN seen
        ELSE [seen EXCEPT !.pc = "profile",
                          !.tokenData = exchanged.value,
                          !.hooks = Append(@, "fetchUser"),
                          !.net = Append(@, ProfileUrl(inst.class))]

\* The token request settles: the rest of _exchangeCode, then line 232 calls
\* fetchUser, which issues the profile request.
AfterToken(call, inst, outcome) ==
    LET name == ProviderName(inst.class)
        exchanged == ExchangeCode(name, Request(outcome))
        seen == [call EXCEPT !.tokenResp = outcome]
    IN  IF ~exchanged.ok THEN Threw(seen, exchanged.error)
        ELSE [seen EXCEPT !.pc = "profile",
                          !.tokenData = exchanged.value,
                          !.hooks = Append(@, "fetchUser"),
                          !.net = Append(@, ProfileUrl(inst.class))]

\* A handleCallback that keeps the token response on the instance and attaches
\* the instance's token when fetchUser returns: with another call on the same
\* instance past its exchange, that call's token is what is attached.
MutFinishInstanceToken(call, user) ==
    LET others == {d \in DOMAIN calls :
                      /\ calls[d] # call
                      /\ calls[d].key = call.key
                      /\ Truthy(calls[d].tokenData.access_token)}
        tokenData == IF others = {} THEN call.tokenData
                     ELSE calls[CHOOSE d \in others : TRUE].tokenData
    IN  [call EXCEPT !.pc = "returned", !.result = AttachToken(user, tokenData)]

\* fetchUser returned: lines 235-237.
Finish(call, user) ==
    [call EXCEPT !.pc = "returned", !.result = AttachToken(user, call.tokenData)]

\* The profile request settles: the rest of fetchUser.  GitHub goes on to the
\* emails request when the profile has no email.
AfterProfile(call, inst, outcome) ==
    LET got == Request(outcome)
        seen == [call EXCEPT !.profileResp = outcome]
    IN  IF ~got.ok THEN Threw(seen, got.error)
        ELSE CASE inst.class = "GitHubProvider" ->
                    IF ~Truthy(got.value.email)
                    THEN [seen EXCEPT !.pc = "emails", !.net = Append(@, EmailsUrl)]
                    ELSE Finish(seen, GitHubUser(got.value, got.value.email))
               [] inst.class = "GoogleProvider" -> Finish(seen, GoogleUser(got.value))
               [] inst.class = "DiscordProvider" -> Finish(seen, DiscordUser(got.value))

\* The emails request settles: github.js lines 43-60.
AfterEmails(call, outcome) ==
    LET seen == [call EXCEPT !.emailsResp = outcome]
        profile == Request(call.profileResp).value
    IN  Finish(seen, GitHubUser(profile, ResolveEmail(Request(outcome))))

\* ------------------------------------------------------------------ the system

Calls == {"c1"}

\* createOAuth with all three providers configured.
FullConfig ==
    [kind |-> "object",
     entries |-> <<[name |-> "github", config |-> ValidConfig],
                   [name |-> "google", config |-> ValidConfig],
                   [name |-> "discord", config |-> ValidConfig]>>]

NoFactoryCall ==
    [op |-> "none", class |-> "", config |-> [kind |-> "undefined", entries |-> <<>>],
     outcome |-> Throw(NoError)]

NoSyncCall == [op |-> "none"]

Init ==
    /\ oauth = CreateOAuth(FullConfig).value
    /\ factory = NoFactoryCall
    /\ calls = [c \in Calls |-> IdleCall]
    /\ sync = NoSyncCall

\* The values a caller passes as options.state.
OptionStates == {UNDEFINED, "", "a", "ab"}

\* await oauth[key].handleCallback(req, { state }) is called.
HandleCallback(c) ==
    /\ calls[c].pc = "idle"
    /\ \E key \in DOMAIN oauth, req \in Requests, state \in OptionStates :
          calls' = [calls EXCEPT ![c] = Begin(key, oauth[key], req, [state |-> state])]
    /\ UNCHANGED <<oauth, factory, sync>>

\* fetch of the token endpoint settles.
TokenResponse(c) ==
    /\ calls[c].pc = "token"
    /\ \E outcome \in TokenOutcomes :
          calls' = [calls EXCEPT ![c] = AfterToken(@, oauth[@.key], outcome)]
    /\ UNCHANGED <<oauth, factory, sync>>

\* fetch of the profile endpoint settles.
ProfileResponse(c) ==
    /\ calls[c].pc = "profile"
    /\ \E outcome \in ProfileOutcomes(oauth[calls[c].key].class) :
          calls' = [calls EXCEPT ![c] = AfterProfile(@, oauth[@.key], outcome)]
    /\ UNCHANGED <<oauth, factory, sync>>

\* fetch of GitHub's emails endpoint settles.
EmailsResponse(c) ==
    /\ calls[c].pc = "emails"
    /\ \E outcome \in EmailsOutcomes :
          calls' = [calls EXCEPT ![c] = AfterEmails(@, outcome)]
    /\ UNCHANGED <<oauth, factory, sync>>

\* ------------------------------------------------------------------ the factory

MaxEntries == 2

\* The names a createOAuth configuration may use as keys.
ConfigKeys == {"github", "google", "discord", "twitter", "constructor", "toString"}

\* The provider configurations tried as entries of a createOAuth configuration.
EntryConfigs ==
    {ValidConfig,
     [ValidConfig EXCEPT !.clientId = UNDEFINED],
     [ValidConfig EXCEPT !.clientSecret = ""],
     [ValidConfig EXCEPT !.redirectUri = UNDEFINED],
     [ValidConfig EXCEPT !.scopes = Some(<<"read:user">>)]}

\* Object.entries(config): an object's keys are distinct.
EntryLists ==
    {l \in UNION {[1..n -> [name : ConfigKeys, config : EntryConfigs]] : n \in 0..MaxEntries} :
        \A i, j \in 1..Len(l) : l[i].name = l[j].name => i = j}

CreateConfigs ==
    {[kind |-> "undefined", entries |-> <<>>]}
    \cup {[kind |-> "object", entries |-> l] : l \in EntryLists}

\* createOAuth(config) is called.
CreateOAuthCall ==
    /\ factory.op = "none"
    /\ \E config \in CreateConfigs :
          factory' = [op |-> "createOAuth", class |-> "", config |-> config,
                      outcome |-> CreateOAuth(config)]
    /\ UNCHANGED <<oauth, calls, sync>>

\* new GitHubProvider(config) / new GoogleProvider(config) / new DiscordProvider(config)
NewProviderCall ==
    /\ factory.op = "none"
    /\ \E class \in Variants, config \in ProviderConfigs :
          factory' = [op |-> "new", class |-> class, config |-> config,
                      outcome |-> NewProvider(class, config)]
    /\ UNCHANGED <<oauth, calls, sync>>

Next ==
    \E c \in Calls :
        \/ HandleCallback(c)
        \/ TokenResponse(c)
        \/ ProfileResponse(c)
        \/ EmailsResponse(c)

Spec == Init /\ [][Next]_vars

\* The same system where every request that was issued settles: fetch resolves
\* or rejects in the end, which resumes the call awaiting it.  Nothing obliges
\* the host to call handleCallback.
Responsive ==
    \A c \in Calls :
        /\ WF_vars(TokenResponse(c))
        /\ WF_vars(ProfileResponse(c))
        /\ WF_vars(EmailsResponse(c))

SpecResponsive == Init /\ [][Next]_vars /\ Responsive

NextFactory ==
    \/ CreateOAuthCall
    \/ NewProviderCall

SpecFactory == Init /\ [][NextFactory]_vars

\* ------------------------------------------------------------------ redirects

\* What a host may pass as `scopes`, to a constructor or to getRedirectUrl:
\* nothing, an empty array, or an array of scopes.
ConfiguredScopes == {None, Some(<<>>), Some(<<"read:user">>)}

\* createOAuth with the three providers, each given `scopes` and a redirect
\* URI whose characters the URL serializer has to encode.
RedirectConfig(scopes) ==
    LET config == [ValidConfig EXCEPT !.redirectUri = "http://app/cb", !.scopes = scopes]
    IN  [kind |-> "object",
         entries |-> <<[name |-> "github", config |-> config],
                       [name |-> "google", config |-> config],
                       [name |-> "discord", config |-> config]>>]

\* The state after const oauth = createOAuth(config): factory records the call.
InitRedirect ==
    /\ \E scopes \in ConfiguredScopes :
          factory = [op |-> "createOAuth", class |-> "", config |-> RedirectConfig(scopes),
                     outcome |-> CreateOAuth(RedirectConfig(scopes))]
    /\ oauth = factory.outcome.value
    /\ calls = [c \in Calls |-> IdleCall]
    /\ sync = NoSyncCall

RedirectOptions ==
    [scopes : {None, Some(<<>>), Some(<<"a", "b">>)}, state : {UNDEFINED, "a"}]

\* oauth[key].getRedirectUrl(options) is called.  sync.overridden remembers
\* whether an earlier getRedirectUrl call on this instance passed `scopes`.
GetRedirectUrlCall ==
    \E key \in DOMAIN oauth, options \in RedirectOptions :
        LET out == GetRedirectUrl(oauth[key], options)
        IN  /\ sync' = [op |-> "getRedirectUrl", key |-> key, options |-> options,
                        outcome |-> Return(out.url),
                        overridden |-> /\ sync.op = "getRedirectUrl"
                                       /\ sync.key = key
                                       /\ sync.overridden \/ sync.options.scopes # None]
            /\ oauth' = [oauth EXCEPT ![key] = out.this]
            /\ UNCHANGED <<factory, calls>>

\* A few callbacks and responses, for runs in which callbacks share the client
\* with other calls: on two of the instances, a code with the state the host
\* expects or with another one; a token response that carries one of two
\* tokens, or a failed fetch; a profile with all its optional fields but
\* perhaps the email, or a failed fetch; one emails list, or a failed fetch.
SharedKeys == {"github", "google"}

SharedRequests ==
    {[NoShapeRequest EXCEPT !.query = Shape("object", p)] :
        p \in {r \in RawParams : /\ r.error = UNDEFINED
                                 /\ r.code = "c"
                                 /\ r.state \in {"a", "b"}}}

SharedOptionStates == {"a"}

SharedTokenOutcomes ==
    {o \in TokenOutcomes :
        \/ o.kind = "throw"
        \/ /\ o.ok
           /\ o.ctype = "json"
           /\ o.body.fmt = "json"
           /\ o.body.data.error = UNDEFINED
           /\ o.body.data.access_token \in {"gho_1", "gho_2"}}

SharedProfileOutcomes(class) ==
    {o \in ProfileOutcomes(class) :
        \/ o.kind = "throw"
        \/ /\ o.ok
           /\ o.body.fmt = "json"
           /\ \A f \in DOMAIN o.body.data \ {"id", "email"} :
                  o.body.data[f] \notin {NULL, UNDEFINED}}

SharedEmailsOutcomes ==
    {o \in EmailsOutcomes :
        \/ o.kind = "throw"
        \/ /\ o.ok
           /\ o.body.fmt = "json"
           /\ o.body.data.items = <<[email |-> "p@example.com", primary |-> TRUE,
                                     verified |-> TRUE]>>}

\* await oauth[key].handleCallback(req, { state }) is called with one of these.
SharedCallback(c) ==
    /\ calls[c].pc = "idle"
    /\ \E key \in SharedKeys, req \in SharedRequests, state \in SharedOptionStates :
          calls' = [calls EXCEPT ![c] = Begin(key, oauth[key], req, [state |-> state])]
    /\ UNCHANGED <<oauth, factory, sync>>

SharedTokenResponse(c) ==
    /\ calls[c].pc = "token"
    /\ \E outcome \in SharedTokenOutcomes :
          calls' = [calls EXCEPT ![c] = AfterToken(@, oauth[@.key], outcome)]
    /\ UNCHANGED <<oauth, factory, sync>>

SharedProfileResponse(c) ==
    /\ calls[c].pc = "profile"
    /\ \E outcome \in SharedProfileOutcomes(oauth[calls[c].key].class) :
          calls' = [calls EXCEPT ![c] = AfterProfile(@, oauth[@.key], outcome)]
    /\ UNCHANGED <<oauth, factory, sync>>

SharedEmailsResponse(c) ==
    /\ calls[c].pc = "emails"
    /\ \E outcome \in SharedEmailsOutcomes :
          calls' = [calls EXCEPT ![c] = AfterEmails(@, outcome)]
    /\ UNCHANGED <<oauth, factory, sync>>

NextRedirect ==
    \/ GetRedirectUrlCall
    \/ \E c \in Calls :
          \/ SharedCallback(c)
          \/ SharedTokenResponse(c)
          \/ SharedProfileResponse(c)
          \/ SharedEmailsResponse(c)

SpecRedirect == InitRedirect /\ [][NextRedirect]_vars

\* ------------------------------------------------------------------ concurrent calls

\* Two handleCallback invocations in flight at once.
ConcurrentCalls == {"c1", "c2"}

InitConcurrent ==
    /\ oauth = CreateOAuth(FullConfig).value
    /\ factory = NoFactoryCall
    /\ calls = [c \in ConcurrentCalls |-> IdleCall]
    /\ sync = NoSyncCall

SharedRedirectOptions ==
    {NoOptions, [scopes |-> Some(<<"a", "b">>), state |-> "a"]}

\* oauth[key].getRedirectUrl(options) is called while callbacks are in flight.
SharedRedirect ==
    \E key \in SharedKeys, options \in SharedRedirectOptions :
        LET out == GetRedirectUrl(oauth[key], options)
        IN  /\ sync' = [op |-> "getRedirectUrl", key |-> key, options |-> options,
                        outcome |-> Return(out.url),
                        overridden |-> /\ sync.op = "getRedirectUrl"
                                       /\ sync.key = key
                                       /\ sync.overridden \/ sync.options.scopes # None]
            /\ oauth' = [oauth EXCEPT ![key] = out.this]
            /\ UNCHANGED <<factory, calls>>

\* Any call may take its next step: the interleavings at the awaits.
NextConcurrent ==
    \/ SharedRedirect
    \/ \E c \in ConcurrentCalls :
          \/ SharedCallback(c)
          \/ SharedTokenResponse(c)
          \/ SharedProfileResponse(c)
          \/ SharedEmailsResponse(c)

SpecConcurrent == InitConcurrent /\ [][NextConcurrent]_vars

\* ------------------------------------------------------------------ direct calls of validateState

MaxStateLen == 3

\* The strings over the hex digits a and b of at most n characters.
RECURSIVE StringsUpTo(_)
StringsUpTo(n) ==
    IF n = 0 THEN {""}
    ELSE LET shorter == StringsUpTo(n - 1)
         IN  shorter \cup {str \o ch : str \in shorter, ch \in {"a", "b"}}

\* What a caller may pass as either argument: nothing, null, or a string.
StateArguments == {UNDEFINED, NULL} \cup StringsUpTo(MaxStateLen)

\* validateState(expected, received) is called.
ValidateStateCall ==
    /\ sync.op = "none"
    /\ \E expected \in StateArguments, received \in StateArguments :
          sync' = [op |-> "validateState", expected |-> expected, received |-> received,
                   outcome |-> ValidateState(expected, received)]
    /\ UNCHANGED <<oauth, factory, calls>>

NextState ==
    ValidateStateCall

SpecState == Init /\ [][NextState]_vars

\* ------------------------------------------------------------------ properties

Started(call) == call.pc # "idle"

\* The extraction gave params (it did not throw).
Extracted(call) ==
    Started(call) /\ ExtractParams(ProviderName(oauth[call.key].class), call.req).ok

\* The call got as far as requesting the token endpoint.
ReachedExchange(call) == Len(call.net) >= 1

\* The request does not pass the checks made before the token exchange: no
\* recognized shape, an error, no code, or a state that the caller's
\* options.state does not match.
FailsValidation(call) ==
    /\ Started(call)
    /\ \/ ~Extracted(call)
       \/ Truthy(call.params.error)
       \/ ~Truthy(call.params.code)
       \/ Truthy(call.opts.state) /\ call.params.state # call.opts.state

\* C1: a handleCallback call that fails validation (unsupported request shape,
\* provider-supplied error, missing code, state missing or mismatched) has
\* thrown without having issued any network request, and none is issued later.
C1_NoNetworkOnValidationFailure ==
    \A c \in Calls :
        FailsValidation(calls[c]) =>
            /\ calls[c].pc = "threw"
            /\ calls[c].net = <<>>
            /\ calls[c].hooks = <<>>

\* C1 witness: a call with a code whose state does not match has thrown.
C1_Witness ==
    \E c \in Calls :
        /\ calls[c].pc = "threw"
        /\ calls[c].error.code = "STATE_MISMATCH"
        /\ calls[c].params.code = "c"
        /\ calls[c].net = <<>>

\* C2: a callback whose extracted params carry a non-empty error fails with an
\* error whose code is that error token, whatever code, state and
\* options.state are.
C2_DenialCodePropagated ==
    \A c \in Calls :
        (Extracted(calls[c]) /\ Truthy(calls[c].params.error)) =>
            /\ calls[c].pc = "threw"
            /\ calls[c].error.type = "OAuthError"
            /\ calls[c].error.code = calls[c].params.error

\* C2 witness: a denial that comes without a code and with a state that the
\* caller's does not match.
C2_Witness ==
    \E c \in Calls :
        /\ calls[c].pc = "threw"
        /\ calls[c].params.error = "access_denied"
        /\ calls[c].params.code = NULL
        /\ calls[c].opts.state = "ab"
        /\ calls[c].params.state = "a"
        /\ calls[c].error.code = "access_denied"

\* C3: with options.state supplied, a code and no error, the call fails with
\* STATE_MISSING when the callback carries no state (none, or an empty one),
\* with STATE_MISMATCH when it carries a state that differs from options.state,
\* and reaches the token exchange exactly when the two are equal.
C3_StateValidation ==
    \A c \in Calls :
        LET call == calls[c]
        IN  (/\ Extracted(call)
             /\ Truthy(call.opts.state)
             /\ Truthy(call.params.code)
             /\ ~Truthy(call.params.error)) =>
                /\ ~Truthy(call.params.state) =>
                       call.pc = "threw" /\ call.error.code = "STATE_MISSING"
                /\ (Truthy(call.params.state) /\ call.params.state # call.opts.state) =>
                       call.pc = "threw" /\ call.error.code = "STATE_MISMATCH"
                /\ ReachedExchange(call) <=> call.params.state = call.opts.state

\* C3 witness: a callback state one character longer than the expected one is
\* rejected as a mismatch.
C3_Witness ==
    \E c \in Calls :
        /\ calls[c].pc = "threw"
        /\ calls[c].opts.state = "a"
        /\ calls[c].params.state = "ab"
        /\ calls[c].params.code = "c"
        /\ calls[c].error.code = "STATE_MISMATCH"

\* C4: a callback with no code and no error fails with MISSING_CODE, for each
\* request shape and whatever the state values are.
C4_MissingCode ==
    \A c \in Calls :
        (/\ Extracted(calls[c])
         /\ ~Truthy(calls[c].params.code)
         /\ ~Truthy(calls[c].params.error)) =>
            /\ calls[c].pc = "threw"
            /\ calls[c].error.type = "OAuthError"
            /\ calls[c].error.code = "MISSING_CODE"

\* C4 witness: a raw-URL request without code, with no state where the caller
\* expects one.
C4_Witness ==
    \E c \in Calls :
        /\ calls[c].pc = "threw"
        /\ calls[c].req.url.kind = "valid"
        /\ calls[c].req.query.kind = "absent"
        /\ calls[c].req.nextUrl.kind = "absent"
        /\ calls[c].req.url.p.code = UNDEFINED
        /\ calls[c].req.url.p.state = UNDEFINED
        /\ calls[c].opts.state = "a"
        /\ calls[c].error.code = "MISSING_CODE"

\* The token endpoint answered with a success status and a body that parsed.
TokenBodyParsed(call) ==
    /\ call.tokenResp.kind = "response"
    /\ call.tokenResp.ok
    /\ ParseBody(call.tokenResp.ctype, call.tokenResp.body).ok

\* The token exchange succeeded: that body has no error and has an access_token.
TokenExchangeSucceeded(call) ==
    /\ TokenBodyParsed(call)
    /\ ~Truthy(call.tokenResp.body.data.error)
    /\ Truthy(call.tokenResp.body.data.access_token)

\* The profile endpoint answered with a success status and a body that parsed.
ProfileFetchSucceeded(call) ==
    /\ call.profileResp.kind = "response"
    /\ call.profileResp.ok
    /\ ParseBody(call.profileResp.ctype, call.profileResp.body).ok

Completed(call) == call.pc \in {"returned", "threw"}

UserFields == {"provider", "id", "email", "name", "avatar", "accessToken", "raw"}

\* C5: for each variant, a completed callback with a valid code, a state that
\* passes, a successful token exchange and a successful profile fetch has
\* returned a user whose accessToken is the token response's access_token and
\* whose provider is the instance's name.
C5_EndToEnd ==
    \A c \in Calls :
        LET call == calls[c]
        IN  (/\ Completed(call)
             /\ ~FailsValidation(call)
             /\ TokenExchangeSucceeded(call)
             /\ ProfileFetchSucceeded(call)) =>
                /\ call.pc = "returned"
                /\ call.result.accessToken = call.tokenResp.body.data.access_token
                /\ call.result.provider = ProviderName(oauth[call.key].class)

\* C5 witness: a Discord callback with a matching state has returned.
C5_Witness ==
    \E c \in Calls :
        /\ calls[c].pc = "returned"
        /\ calls[c].key = "discord"
        /\ calls[c].opts.state = "ab"
        /\ calls[c].params.state = "ab"
        /\ calls[c].result.accessToken = "gho_2"
        /\ calls[c].result.provider = "discord"

\* C6: handleCallback returns no partial user: a call that returned gives an
\* object with all seven fields and a non-empty accessToken (email, name and
\* avatar hold what the profile gives, which may be null); a call that has not
\* returned has handed no user to its caller.
C6_NoPartialUser ==
    \A c \in Calls :
        LET call == calls[c]
        IN  /\ call.pc = "returned" =>
                  /\ DOMAIN call.result = UserFields
                  /\ Truthy(call.result.accessToken)
                  /\ Truthy(call.result.provider)
                  /\ call.result.raw = call.profileResp.body.data
            /\ call.pc # "returned" => call.result = NoUser

\* C6 witness: a GitHub callback whose emails request failed has returned a
\* complete user.
C6_Witness ==
    \E c \in Calls :
        /\ calls[c].pc = "returned"
        /\ calls[c].key = "github"
        /\ calls[c].emailsResp.kind = "throw"
        /\ DOMAIN calls[c].result = UserFields
        /\ calls[c].result.accessToken = "gho_1"

\* C7: a token response with a success status whose parsed body carries an
\* error, or has no access_token, makes the call fail with TOKEN_ERROR, and
\* fetchUser is not invoked (no profile request is issued).
C7_TokenError ==
    \A c \in Calls :
        LET call == calls[c]
        IN  (/\ TokenBodyParsed(call)
             /\ \/ Truthy(call.tokenResp.body.data.error)
                \/ ~Truthy(call.tokenResp.body.data.access_token)) =>
                /\ call.pc = "threw"
                /\ call.error.code = "TOKEN_ERROR"
                /\ call.hooks = <<>>
                /\ call.net = <<TokenUrl(oauth[call.key].class)>>

\* C7 witness: a 2xx token body with both an error and an access_token.
C7_Witness ==
    \E c \in Calls :
        /\ calls[c].pc = "threw"
        /\ calls[c].tokenResp.ok
        /\ calls[c].tokenResp.body.data.error = "bad_verification_code"
        /\ calls[c].tokenResp.body.data.access_token = "gho_1"
        /\ calls[c].error.code = "TOKEN_ERROR"

\* The codes of the README's table.
StableCodes ==
    {"CONFIG_ERROR", "INVALID_REQUEST", "MISSING_CODE", "STATE_MISSING", "STATE_MISMATCH",
     "TOKEN_ERROR", "HTTP_ERROR", "NETWORK_ERROR"}

\* C8: every error a handleCallback call surfaces carries the instance's name
\* as provider and a stable code (one of the table, or the provider's own
\* denial token).
C8_ErrorsCarryProvider ==
    \A c \in Calls :
        calls[c].pc = "threw" =>
            /\ calls[c].error.provider = ProviderName(oauth[calls[c].key].class)
            /\ calls[c].error.code \in StableCodes \cup {calls[c].params.error}

\* C9: constructing any variant with one of clientId, clientSecret and
\* redirectUri missing or empty throws CONFIG_ERROR with that variant's name as
\* provider, and yields no instance.
C9_ConfigError ==
    (/\ factory.op = "new"
     /\ \/ ~Truthy(factory.config.clientId)
        \/ ~Truthy(factory.config.clientSecret)
        \/ ~Truthy(factory.config.redirectUri)) =>
        /\ ~factory.outcome.ok
        /\ factory.outcome.error.type = "OAuthError"
        /\ factory.outcome.error.code = "CONFIG_ERROR"
        /\ factory.outcome.error.provider = ProviderName(factory.class)

\* C9 witness: new GoogleProvider with only clientSecret empty has thrown.
C9_Witness ==
    /\ factory.op = "new"
    /\ factory.class = "GoogleProvider"
    /\ factory.config.clientId = "id"
    /\ factory.config.clientSecret = ""
    /\ factory.config.redirectUri = "uri"
    /\ ~factory.outcome.ok
    /\ factory.outcome.error.provider = "google"

KnownNames == {"github", "google", "discord"}

\* The entry is one createOAuth can construct: a known name with a config that
\* has its three required fields.
GoodEntry(e) ==
    /\ e.name \in KnownNames
    /\ Truthy(e.config.clientId)
    /\ Truthy(e.config.clientSecret)
    /\ Truthy(e.config.redirectUri)

\* C10: createOAuth is all-or-nothing: it fails on no or an empty mapping,
\* fails with the unknown-provider error at the first key that is not github,
\* google or discord, fails on an invalid provider config, and otherwise
\* returns a mapping with the config's keys, each bound to an instance of the
\* variant of that name.
C10_CreateAllOrNothing ==
    factory.op = "createOAuth" =>
        LET entries == factory.config.entries
            out == factory.outcome
            names == {entries[i].name : i \in 1..Len(entries)}
        IN  /\ (factory.config.kind # "object" \/ entries = <<>>) => ~out.ok
            /\ \A i \in 1..Len(entries) :
                  (/\ entries[i].name \notin KnownNames
                   /\ \A j \in 1..(i - 1) : GoodEntry(entries[j])) =>
                      ~out.ok /\ out.error.msg = "Unknown provider"
            /\ (\E i \in 1..Len(entries) : ~GoodEntry(entries[i])) => ~out.ok
            /\ out.ok =>
                  /\ DOMAIN out.value = names
                  /\ \A k \in names :
                        k \in KnownNames /\ IsInstanceOf(out.value[k], PROVIDERS[k])

\* ------------------------------------------------------------------ reading a URL

\* The position of the first ch in str, 0 when there is none.
IndexOf(str, ch) ==
    LET at == {i \in 1..Len(str) : SubSeq(str, i, i) = ch}
    IN  IF at = {} THEN 0 ELSE CHOOSE i \in at : \A j \in at : i <= j

\* The pieces of str between occurrences of ch.
RECURSIVE SplitOn(_, _)
SplitOn(str, ch) ==
    LET i == IndexOf(str, ch)
    IN  IF i = 0 THEN <<str>>
        ELSE <<SubSeq(str, 1, i - 1)>> \o SplitOn(SubSeq(str, i + 1, Len(str)), ch)

\* What a form-urlencoded parser makes of an encoded name or value.
RECURSIVE FormDecode(_)
FormDecode(str) ==
    IF str = "" THEN ""
    ELSE LET ch == SubSeq(str, 1, 1)
         IN  IF ch = "+" THEN " " \o FormDecode(SubSeq(str, 2, Len(str)))
             ELSE IF ch = "%"
             THEN (CASE SubSeq(str, 2, 3) = "3A" -> ":"
                     [] SubSeq(str, 2, 3) = "2F" -> "/"
                     [] SubSeq(str, 2, 3) = "20" -> " ")
                  \o FormDecode(SubSeq(str, 4, Len(str)))
             ELSE ch \o FormDecode(SubSeq(str, 2, Len(str)))

\* The value a reader of the URL finds for the query parameter `name`: NULL
\* when the query has none.
QueryGet(url, name) ==
    LET q == IndexOf(url, "?")
        pairs == IF q = 0 THEN <<>> ELSE SplitOn(SubSeq(url, q + 1, Len(url)), "&")
        hits == {i \in 1..Len(pairs) :
                    LET e == IndexOf(pairs[i], "=")
                    IN  e > 0 /\ FormDecode(SubSeq(pairs[i], 1, e - 1)) = name}
    IN  IF hits = {} THEN NULL
        ELSE LET pair == pairs[CHOOSE i \in hits : \A j \in hits : i <= j]
             IN  FormDecode(SubSeq(pair, IndexOf(pair, "=") + 1, Len(pair)))

\* The configuration the host passed to createOAuth for the provider `key`.
ConfiguredFor(key) ==
    LET entries == factory.config.entries
    IN  entries[CHOOSE i \in 1..Len(entries) : entries[i].name = key].config

\* The scopes that configuration asks for: its `scopes`, or else the
\* provider's defaults.
ConfiguredScopesFor(key) ==
    IF ConfiguredFor(key).scopes = None THEN DefaultScopes(PROVIDERS[key])
    ELSE ConfiguredFor(key).scopes[1]

\* C11: the URL of a getRedirectUrl call carries the configured redirect_uri
\* and, with no scopes override, the space-joined configured scopes; with an
\* override it carries the override's scopes, and the override stays with that
\* call: after any sequence of getRedirectUrl and handleCallback calls every
\* instance is as the constructor made it, so a later call without override
\* carries the configured scopes again.
C11_ScopeOverrideIsPerCall ==
    /\ oauth = factory.outcome.value
    /\ sync.op = "getRedirectUrl" =>
          LET url == sync.outcome.value
          IN  /\ QueryGet(url, "redirect_uri") = ConfiguredFor(sync.key).redirectUri
              /\ sync.options.scopes = None =>
                    QueryGet(url, "scope") = Join(ConfiguredScopesFor(sync.key), " ")
              /\ sync.options.scopes # None =>
                    QueryGet(url, "scope") = Join(sync.options.scopes[1], " ")

\* C11 witness: after a handleCallback call has returned and an earlier
\* getRedirectUrl call on the GitHub instance passed a scopes override, a call
\* without override carries GitHub's default scopes.
C11_Witness ==
    /\ sync.op = "getRedirectUrl"
    /\ sync.key = "github"
    /\ sync.overridden
    /\ sync.options.scopes = None
    /\ ConfiguredFor("github").scopes = None
    /\ QueryGet(sync.outcome.value, "scope") = "read:user user:email"
    /\ QueryGet(sync.outcome.value, "redirect_uri") = "http://app/cb"
    /\ \E c \in DOMAIN calls : calls[c].pc = "returned" /\ calls[c].key = "github"

\* C12: the scope list a getRedirectUrl call puts in the URL is the per-call
\* override or else the configured scopes, and it is never empty, whatever
\* accepted configuration and whatever options are passed (an empty `scopes`
\* array included).
C12_ScopesNeverEmpty ==
    sync.op = "getRedirectUrl" =>
        LET used == QueryGet(sync.outcome.value, "scope")
        IN  /\ used = IF sync.options.scopes # None
                      THEN Join(sync.options.scopes[1], " ")
                      ELSE Join(ConfiguredScopesFor(sync.key), " ")
            /\ used \notin {NULL, ""}

\* C13: validateState(expected, received) succeeds when both are the same
\* non-empty string, fails with STATE_MISMATCH when both are non-empty strings
\* that differ (in a character or in length), and fails with STATE_MISSING when
\* either is absent, whatever the other is.
C13_ValidateState ==
    sync.op = "validateState" =>
        LET expected == sync.expected
            received == sync.received
            out == sync.outcome
        IN  /\ (Truthy(expected) /\ expected = received) => out.ok
            /\ (Truthy(expected) /\ Truthy(received) /\ expected # received) =>
                  ~out.ok /\ out.error.code = "STATE_MISMATCH"
            /\ (expected \in {UNDEFINED, NULL} \/ received \in {UNDEFINED, NULL}) =>
                  ~out.ok /\ out.error.code = "STATE_MISSING"

\* C13 witness: an absent expected value against a received string is
\* reported as missing, not as a mismatch.
C13_Witness ==
    /\ sync.op = "validateState"
    /\ sync.expected = UNDEFINED
    /\ sync.received = "ab"
    /\ ~sync.outcome.ok
    /\ sync.outcome.error.code = "STATE_MISSING"

\* The request whose fetch did `resp` failed: the fetch was rejected, the
\* status was not a success, or the body could not be parsed.
RequestFailed(resp) ==
    \/ resp.kind = "throw"
    \/ /\ resp.kind = "response"
       /\ ~resp.ok \/ ~ParseBody(resp.ctype, resp.body).ok

\* The emails of the listed entries that satisfy both / one of the marks.
PrimaryVerifiedEmails(items) ==
    {items[i].email : i \in {j \in 1..Len(items) : items[j].primary /\ items[j].verified}}

VerifiedEmails(items) ==
    {items[i].email : i \in {j \in 1..Len(items) : items[j].verified}}

\* C14: a GitHub callback that returned used the profile's email when it has a
\* non-empty one, without requesting the emails endpoint; otherwise it
\* requested the emails and took the email of an entry marked primary and
\* verified, else of a verified entry, else null, and null when the emails
\* request failed (or gave no list).  A completed GitHub callback whose emails
\* request failed has returned all the same; one whose profile request failed
\* has thrown.
C14_GitHubEmail ==
    \A c \in Calls :
        LET call == calls[c]
            profile == call.profileResp.body.data
            listed == call.emailsResp.body.data
        IN  (Started(call) /\ call.key = "github") =>
                /\ (call.pc = "returned" /\ Truthy(profile.email)) =>
                      /\ call.result.email = profile.email
                      /\ call.emailsResp = NoOutcome
                      /\ call.net = <<TokenUrl("GitHubProvider"), ProfileUrl("GitHubProvider")>>
                /\ (call.pc = "returned" /\ ~Truthy(profile.email)) =>
                      /\ call.net[3] = EmailsUrl
                      /\ IF RequestFailed(call.emailsResp) \/ ~listed.isArray
                         THEN call.result.email = NULL
                         ELSE IF PrimaryVerifiedEmails(listed.items) # {}
                         THEN call.result.email \in PrimaryVerifiedEmails(listed.items)
                         ELSE IF VerifiedEmails(listed.items) # {}
                         THEN call.result.email \in VerifiedEmails(listed.items)
                         ELSE call.result.email = NULL
                /\ (Completed(call) /\ RequestFailed(call.emailsResp)) =>
                      call.pc = "returned"
                /\ (Completed(call) /\ RequestFailed(call.profileResp)) =>
                      call.pc = "threw" /\ call.result = NoUser

\* C14 witness: the profile has no email and the list holds a verified entry
\* followed by the primary, verified one, whose email is taken.
C14_Witness ==
    \E c \in Calls :
        /\ calls[c].pc = "returned"
        /\ calls[c].key = "github"
        /\ calls[c].profileResp.body.data.email = NULL
        /\ calls[c].emailsResp.ok
        /\ calls[c].emailsResp.body.data.items =
              <<[email |-> "q@example.com", primary |-> FALSE, verified |-> TRUE],
                [email |-> "p@example.com", primary |-> TRUE, verified |-> TRUE]>>
        /\ calls[c].result.email = "p@example.com"

\* The params are what the query `raw` carries: each is the query's value
\* under its key, or null where the query has none (or an empty one).
SuppliedBy(params, raw) ==
    \A f \in DOMAIN params :
        LET key == IF f = "errorDescription" THEN "error_description" ELSE f
        IN  \/ params[f] = raw[key]
            \/ params[f] = NULL /\ raw[key] \in {UNDEFINED, ""}

\* C15: the adapter reads the request through the first shape it matches, in
\* the order parsed-query mapping, nextUrl with searchParams, raw URL string
\* (one that parses), and through that shape alone; a request that matches no
\* shape fails with INVALID_REQUEST.
C15_ShapeOrder ==
    \A c \in Calls :
        LET call == calls[c]
            req == call.req
        IN  Started(call) =>
                IF req.query.kind = "object"
                THEN SuppliedBy(call.params, req.query.p)
                ELSE IF req.nextUrl.kind = "url"
                THEN SuppliedBy(call.params, req.nextUrl.p)
                ELSE IF req.url.kind = "valid"
                THEN SuppliedBy(call.params, req.url.p)
                ELSE req.url.kind = "absent" =>
                        /\ call.pc = "threw"
                        /\ call.error.type = "OAuthError"
                        /\ call.error.code = "INVALID_REQUEST"
                        /\ call.params = NoParams

\* C15 witness: a request whose query is no mapping and that has both a
\* nextUrl and a url with different codes is read through the nextUrl.
C15_Witness ==
    \E c \in Calls :
        /\ Started(calls[c])
        /\ calls[c].req.query.kind = "string"
        /\ calls[c].req.nextUrl.kind = "url"
        /\ calls[c].req.url.kind = "valid"
        /\ calls[c].req.nextUrl.p.code = "c"
        /\ calls[c].req.url.p.code = "c2"
        /\ calls[c].params.code = "c"
        /\ calls[c].params.state = "a"

\* handleCallback run on its own: the call record that results when the
\* instance `inst` handles req with opts and its requests settle as tokenResp,
\* profileResp and emailsResp did (NoOutcome for a request not yet settled).
RunAlone(key, inst, req, opts, tokenResp, profileResp, emailsResp) ==
    LET begun == Begin(key, inst, req, opts)
        exchanged == IF begun.pc = "token" /\ tokenResp # NoOutcome
                     THEN AfterToken(begun, inst, tokenResp) ELSE begun
        fetched == IF exchanged.pc = "profile" /\ profileResp # NoOutcome
                   THEN AfterProfile(exchanged, inst, profileResp) ELSE exchanged
    IN  IF fetched.pc = "emails" /\ emailsResp # NoOutcome
        THEN AfterEmails(fetched, emailsResp) ELSE fetched

\* C16: under every interleaving of two handleCallback calls and getRedirectUrl
\* calls, on one instance or on two, every call stands where it would stand,
\* with the outcome it would have, had it run alone on the instance as
\* constructed with the same request, options and responses; every
\* getRedirectUrl call returns what it returns on that instance; and no
\* instance's configuration has changed.
C16_CallsIndependent ==
    LET constructed == CreateOAuth(FullConfig).value
    IN  /\ oauth = constructed
        /\ \A c \in DOMAIN calls :
              Started(calls[c]) =>
                  calls[c] = RunAlone(calls[c].key, constructed[calls[c].key],
                                      calls[c].req, calls[c].opts, calls[c].tokenResp,
                                      calls[c].profileResp, calls[c].emailsResp)
        /\ sync.op = "getRedirectUrl" =>
              sync.outcome.value = GetRedirectUrl(constructed[sync.key], sync.options).url

\* C16 witness: two callbacks on the GitHub instance were in flight together
\* with a getRedirectUrl call that overrode the scopes; each returned with its
\* own token.
C16_Witness ==
    /\ DOMAIN calls = ConcurrentCalls
    /\ calls["c1"].pc = "returned"
    /\ calls["c2"].pc = "returned"
    /\ calls["c1"].key = "github"
    /\ calls["c2"].key = "github"
    /\ calls["c1"].result.accessToken = "gho_1"
    /\ calls["c2"].result.accessToken = "gho_2"
    /\ calls["c1"].result.email = "p@example.com"
    /\ sync.op = "getRedirectUrl"
    /\ sync.key = "github"
    /\ sync.options.scopes = Some(<<"a", "b">>)

\* C17: a token or profile request that ends with a non-success status makes
\* the call fail with HTTP_ERROR, and one whose fetch fails makes it fail with
\* NETWORK_ERROR; a failure of GitHub's emails request is absorbed and the
\* call returns.
C17_HttpAndNetworkErrors ==
    \A c \in Calls :
        LET call == calls[c]
        IN  /\ \A resp \in {call.tokenResp, call.profileResp} :
                  /\ (resp.kind = "response" /\ ~resp.ok) =>
                        call.pc = "threw" /\ call.error.code = "HTTP_ERROR"
                  /\ resp.kind = "throw" =>
                        call.pc = "threw" /\ call.error.code = "NETWORK_ERROR"
            /\ RequestFailed(call.emailsResp) => call.pc = "returned"

\* str ends with suffix.
EndsWith(str, suffix) ==
    Len(str) >= Len(suffix) /\ SubSeq(str, Len(str) - Len(suffix) + 1, Len(str)) = suffix

\* C18: a Discord callback that returned gives avatar null when the profile's
\* avatar hash is null or absent; otherwise the avatar is the CDN URL made of
\* the user id and the hash, ending in .gif when the hash begins with a_ and
\* in .png when it does not.
C18_DiscordAvatar ==
    \A c \in Calls :
        LET call == calls[c]
            profile == call.profileResp.body.data
            stem == "https://cdn.discordapp.com/avatars/" \o call.result.id
                    \o "/" \o profile.avatar
        IN  (call.pc = "returned" /\ call.key = "discord") =>
                IF profile.avatar \in {NULL, UNDEFINED}
                THEN call.result.avatar = NULL
                ELSE /\ call.result.id = profile.id.v
                     /\ call.result.avatar \in {stem \o ".gif", stem \o ".png"}
                     /\ EndsWith(call.result.avatar, ".gif")
                           <=> (Len(profile.avatar) >= 2 /\ SubSeq(profile.avatar, 1, 2) = "a_")

\* C18 witness: an animated hash gives a .gif URL.
C18_Witness ==
    \E c \in Calls :
        /\ calls[c].pc = "returned"
        /\ calls[c].key = "discord"
        /\ calls[c].profileResp.body.data.avatar = "a_abc123"
        /\ calls[c].result.avatar = "https://cdn.discordapp.com/avatars/80351/a_abc123.gif"

\* The requests of the call that have settled, and those still in flight.
Settled(call) ==
    Cardinality({r \in {"tokenResp", "profileResp", "emailsResp"} : call[r] # NoOutcome})

InFlight(call) == Len(call.net) - Settled(call)

\* C19: the requests of one handleCallback call are sequential: at most one is
\* in flight at any time, the profile request is issued only once the token
\* exchange has succeeded, and GitHub's emails request only once its profile
\* request has succeeded.
C19_Sequential ==
    \A c \in Calls :
        LET call == calls[c]
        IN  /\ InFlight(call) \in {0, 1}
            /\ InFlight(call) = 1 <=> call.pc \in {"token", "profile", "emails"}
            /\ Len(call.net) >= 2 =>
                  /\ TokenExchangeSucceeded(call)
                  /\ call.net[2] = ProfileUrl(oauth[call.key].class)
            /\ Len(call.net) >= 3 =>
                  /\ call.key = "github"
                  /\ ProfileFetchSucceeded(call)
                  /\ call.net[3] = EmailsUrl

\* C19 witness: a GitHub call waits for the emails request, its token and
\* profile requests having settled.
C19_Witness ==
    \E c \in Calls :
        /\ calls[c].pc = "emails"
        /\ calls[c].net = <<TokenUrl("GitHubProvider"), ProfileUrl("GitHubProvider"), EmailsUrl>>
        /\ calls[c].tokenResp.ok
        /\ calls[c].profileResp.ok
        /\ calls[c].emailsResp = NoOutcome

\* C20: no request is retried: a call requests the token endpoint at most once
\* and each profile endpoint at most once (at most two requests for Google and
\* Discord, three for GitHub), and a token or profile request that fails, or a
\* token exchange that does not succeed, ends the call with no request after it.
C20_NoRetry ==
    \A c \in Calls :
        LET call == calls[c]
        IN  Started(call) =>
                /\ \A i, j \in 1..Len(call.net) : call.net[i] = call.net[j] => i = j
                /\ Len(call.net) <= IF call.key = "github" THEN 3 ELSE 2
                /\ (call.tokenResp # NoOutcome /\ ~TokenExchangeSucceeded(call)) =>
                      /\ call.pc = "threw"
                      /\ call.net = <<TokenUrl(oauth[call.key].class)>>
                /\ RequestFailed(call.profileResp) =>
                      /\ call.pc = "threw"
                      /\ Len(call.net) = 2

\* C20 witness: a Google call whose profile fetch failed has thrown after two
\* requests.
C20_Witness ==
    \E c \in Calls :
        /\ calls[c].pc = "threw"
        /\ calls[c].key = "google"
        /\ calls[c].profileResp.kind = "throw"
        /\ calls[c].error.code = "NETWORK_ERROR"
        /\ calls[c].net = <<TokenUrl("GoogleProvider"), ProfileUrl("GoogleProvider")>>

\* C21: with options.state absent or empty, handleCallback validates no state:
\* a callback with a code and no error goes on to the token exchange whatever
\* state it carries (none, an empty one, any value), and no call made without
\* an expected state fails with STATE_MISSING or STATE_MISMATCH.
C21_NoExpectedStateNoValidation ==
    \A c \in Calls :
        LET call == calls[c]
        IN  (Started(call) /\ ~Truthy(call.opts.state)) =>
                /\ (/\ Extracted(call)
                    /\ Truthy(call.params.code)
                    /\ ~Truthy(call.params.error)) =>
                       /\ ReachedExchange(call)
                       /\ call.net[1] = TokenUrl(oauth[call.key].class)
                /\ call.error.code \notin {"STATE_MISSING", "STATE_MISMATCH"}

\* C21 witness: the host passes no expected state, the callback carries a
\* state of its own, and the call has gone through to a returned user.
C21_Witness ==
    \E c \in Calls :
        /\ calls[c].pc = "returned"
        /\ calls[c].opts.state = UNDEFINED
        /\ calls[c].params.state = "b"
        /\ calls[c].params.code = "c"
        /\ calls[c].key = "google"

\* C22: a token response with a non-success status fails the call with
\* HTTP_ERROR, also when its body carries an error field; TOKEN_ERROR comes
\* only from token responses with a success status.
C22_HttpErrorBeforeTokenError ==
    \A c \in Calls :
        LET call == calls[c]
        IN  /\ (call.tokenResp.kind = "response" /\ ~call.tokenResp.ok) =>
                  /\ call.pc = "threw"
                  /\ call.error.code = "HTTP_ERROR"
            /\ call.error.code = "TOKEN_ERROR" =>
                  call.tokenResp.kind = "response" /\ call.tokenResp.ok

\* ------------------------------------------------------------------ the state round trip

\* The README's two routes.  crypto.randomBytes(length) gives `length` bytes,
\* each one of these values, for any length from 0 up.
MaxStateBytes == 2

RandomBytes == {10, 171}

RandomByteStrings == UNION {[1..n -> RandomBytes] : n \in 0..MaxStateBytes}

\* The first route: const state = generateState(length); the host keeps it in
\* the session and redirects to getRedirectUrl({ state }).  sync.options.state
\* is the value the session holds.
RedirectWithState ==
    /\ sync.op = "none"
    /\ \E key \in SharedKeys, randomBytes \in RandomByteStrings :
          LET options == [scopes |-> None, state |-> GenerateState(randomBytes)]
              out == GetRedirectUrl(oauth[key], options)
          IN  /\ sync' = [op |-> "getRedirectUrl", key |-> key, options |-> options,
                          outcome |-> Return(out.url), overridden |-> FALSE]
              /\ oauth' = [oauth EXCEPT ![key] = out.this]
    /\ UNCHANGED <<factory, calls>>

\* The states a callback may carry: the one the provider echoes from the URL
\* it was sent, none, or any other generated value.
CarriedStates(url) ==
    {IF QueryGet(url, "state") = NULL THEN UNDEFINED ELSE QueryGet(url, "state")}
    \cup {UNDEFINED}
    \cup {GenerateState(randomBytes) : randomBytes \in RandomByteStrings}

\* The second route: a callback with a code arrives, as a parsed query or as a
\* raw URL, and the host calls handleCallback(req, { state: session state }).
CallbackRoute(c) ==
    /\ calls[c].pc = "idle"
    /\ sync.op = "getRedirectUrl"
    /\ \E carried \in CarriedStates(sync.outcome.value), shape \in {"query", "url"} :
          LET p == [NoRaw EXCEPT !.code = "c", !.state = carried]
              req == IF shape = "query"
                     THEN [NoShapeRequest EXCEPT !.query = Shape("object", p)]
                     ELSE [NoShapeRequest EXCEPT !.url = Shape("valid", p)]
          IN  calls' = [calls EXCEPT ![c] = Begin(sync.key, oauth[sync.key], req,
                                                  [state |-> sync.options.state])]
    /\ UNCHANGED <<oauth, factory, sync>>

NextRoundTrip ==
    \/ RedirectWithState
    \/ \E c \in Calls :
          \/ CallbackRoute(c)
          \/ SharedTokenResponse(c)
          \/ SharedProfileResponse(c)
          \/ SharedEmailsResponse(c)

SpecRoundTrip == Init /\ [][NextRoundTrip]_vars

\* What the round trip promises of the state s the session holds.
RoundTrips(s) ==
    /\ QueryGet(sync.outcome.value, "state") = s
    /\ \A c \in Calls :
          Started(calls[c]) =>
              /\ calls[c].opts.state = s
              /\ calls[c].params.state = s => ReachedExchange(calls[c])
              /\ calls[c].params.state # s =>
                    /\ ~ReachedExchange(calls[c])
                    /\ calls[c].pc = "threw"
                    /\ calls[c].error.code \in {"STATE_MISSING", "STATE_MISMATCH"}

\* C23 as stated: a value s from generateState passed to
\* getRedirectUrl({ state: s }) is the state the URL carries; a callback with
\* a code that is handled with options.state = s reaches the token exchange
\* when the state it carries is s, and fails the state validation when it
\* carries another value or none.
C23_StateRoundTrip ==
    sync.op = "getRedirectUrl" => RoundTrips(sync.options.state)

\* C23 amended: the same for every s that generateState made from one byte
\* or more, that is for every s but the empty string.
C23_NonEmptyStateRoundTrip ==
    (sync.op = "getRedirectUrl" /\ sync.options.state # "") =>
        RoundTrips(sync.options.state)

\* C23 witness: the two-byte state 0aab went out in the URL, came back in a
\* raw-URL callback and the call went through to a returned user.
C23_Witness ==
    /\ sync.op = "getRedirectUrl"
    /\ sync.options.state = "0aab"
    /\ \E c \in Calls :
          /\ calls[c].pc = "returned"
          /\ calls[c].req.url.kind = "valid"
          /\ calls[c].req.url.p.state = "0aab"
          /\ calls[c].opts.state = "0aab"

\* C24: provided every request it issues settles, every handleCallback call
\* that was started completes in the end, by returning a user or by throwing.
C24_Terminates ==
    \A c \in Calls : Started(calls[c]) ~> Completed(calls[c])

\* C24 witness: a GitHub call has completed with a returned user after its
\* token, profile and emails requests were all answered.
C24_Witness ==
    \E c \in Calls :
        /\ Completed(calls[c])
        /\ calls[c].pc = "returned"
        /\ calls[c].key = "github"
        /\ Len(calls[c].net) = 3
        /\ calls[c].tokenResp # NoOutcome
        /\ calls[c].profileResp # NoOutcome
        /\ calls[c].emailsResp # NoOutcome

====
